---- MODULE Spec2Model ----
(***************************************************************************)
(* QuikTalk chat coordinator: UserHandler (registry), RoomService /        *)
(* RoomHandler (rooms, membership index, bounded history) and the socket   *)
(* event handlers of app.py that drive them.                               *)
(***************************************************************************)
EXTENDS Integers, Sequences, FiniteSets, TLC

(***************************************************************************)
(* Bounds of the model.                                                    *)
(***************************************************************************)
\* registrations explored: _user_counter runs from 1 to MaxRegs + 1
MaxRegs == 3
\* room messages formatted (values of the clock read by format_message)
MaxMsgs == 3
\* RoomService._history_limit, scaled down from 100 (rooms.py:52)
HistoryLimit == 2
\* MessageHandler.max_message_length, scaled down from 1000 (config.py:33)
MaxMessageLength == 3
\* add_to_queue calls explored
MaxAdmissions == 3
\* values of the clock read by add_to_queue: 0..MaxTime
MaxTime == 2
\* PrivateMessageHandler._history_limit, scaled down from 100
\* (private_message_handler.py:16)
PmHistoryLimit == 2
\* the default limit of get_conversation, scaled down from 50
\* (private_message_handler.py:58)
ConversationLimit == 1
\* length of the plaintexts handed to EncryptionService.encrypt
MaxPlainLen == 3

(***************************************************************************)
(* Program constants.                                                      *)
(***************************************************************************)
\* default of max_users in RoomService.create_room / RoomHandler.create_room
DefaultMaxUsers == 50

\* socket ids of the transport connections; a socket id is never reused
Conns == {1, 2}
\* the raw name clients request in set_username: every registration asks for
\* the identical name
RawNames == {"ann"}
\* room ids after normalisation; 'general' is the default room
RoomIds == {"general", "team"}
\* raw room ids a client may send in create_room
RawRoomIds == {"", "general", "Team"}
\* max_users values a client may send in create_room (none are validated)
MaxUsersInputs == {-1, 1, 2}
\* message texts a client may send, as sequences of characters: empty, blank,
\* padded, and one character over the maximum length
MsgInputs == {<<>>, <<" ">>, <<" ", "a">>, [i \in 1..(MaxMessageLength + 1) |-> "a"]}

\* the characters of the message texts validate_message is applied to, and
\* the texts: every text of at most MaxMessageLength + 2 characters
Chars == {" ", "a"}
Texts == UNION {[1..n -> Chars] : n \in 0..(MaxMessageLength + 2)}
\* senders, contents and priorities of the messages given to add_to_queue
QueueUsers == {"alice", "bob"}
QueueTexts == {"a", "b"}
Priorities == {1, 5}

VARIABLES
    users,          \* UserHandler._users: socket id -> User
    usernames,      \* UserHandler._usernames: display name -> socket id
    user_counter,   \* UserHandler._user_counter
    rooms,          \* RoomService._rooms: room id -> Room
    user_rooms,     \* RoomService._user_rooms: socket id -> set of room ids
    clock,          \* wall clock read by format_message
    lastEvent,      \* the event handled last, with what it returned and emitted
    closed,         \* connections the transport has reported disconnected
    assigned,       \* history: display names ever assigned to each connection
    appended,       \* history: per room, messages handed to add_message_to_history
    conversations,  \* PrivateMessageHandler._conversations: id -> messages
    encryption,     \* PrivateMessageHandler.encryption is a service, not None
    pmCall,         \* the PrivateMessageHandler call made last, with its result
    pmSent,         \* history: the messages send_message returned, in order
    encCall,        \* the EncryptionService call made last, with its outcome
    joining,        \* per connection, <<room id, username>> of its join_room
                    \* that has passed the capacity check and whose insertion
                    \* is still to run, <<>> when it has none
    leaving,        \* per connection, the display name its disconnect has
                    \* unregistered and whose leave_all_rooms is still to run
    fcfs_queue,     \* MessageHandler.fcfs_queue
    fifo_queue,     \* MessageHandler.fifo_queue
    lru_queue,      \* MessageHandler.lru_queue, an OrderedDict as its item list
    priority_queue, \* MessageHandler.priority_queue
    round_robin_queue,  \* MessageHandler.round_robin_queue
    current_algorithm,  \* MessageHandler.current_algorithm
    time,            \* the time that time.time() returns to add_to_queue
    mhCall,         \* the MessageHandler call made last, with what it returned
    admitted,       \* history: the admissions made by add_to_queue, in order
    dispatched      \* history: per queue, what its dispatches returned, in order

regVars == <<users, usernames, user_counter>>
roomVars == <<rooms, user_rooms>>
histVars == <<closed, assigned, appended>>
pmVars == <<conversations, encryption, pmCall, pmSent>>
stepVars == <<encCall, joining, leaving>>
queueVars == <<fcfs_queue, fifo_queue, lru_queue, priority_queue,
               round_robin_queue>>
mhVars == <<queueVars, current_algorithm, time, mhCall, admitted, dispatched>>
appVars == <<users, usernames, user_counter, rooms, user_rooms, clock, lastEvent,
             closed, assigned, appended, pmVars, stepVars>>
vars == <<appVars, mhVars>>

(***************************************************************************)
(* Python dict operations on functions with a finite domain.               *)
(***************************************************************************)
\* d[k] = v
Put(d, k, v) == [x \in (DOMAIN d) \cup {k} |-> IF x = k THEN v ELSE d[x]]
\* del d[k] / d.pop(k, None)
Drop(d, k) == [x \in (DOMAIN d) \ {k} |-> d[x]]
\* d.get(k, default)
Get(d, k, default) == IF k \in DOMAIN d THEN d[k] ELSE default

EmptyDict == [x \in {} |-> 0]

(***************************************************************************)
(* handlers/user_handler.py                                                *)
(***************************************************************************)
\* f"user{self._user_counter} ({username})"
DisplayName(counter, username) ==
    "user" \o ToString(counter) \o " (" \o username \o ")"

User(socket_id, username, display_name) ==
    [socket_id |-> socket_id, username |-> username, display_name |-> display_name]

\* register_user with the counter left as it was
register_user_stuck_counter(us, un, counter, socket_id, username) ==
    LET display_name == DisplayName(counter, username)
        user == User(socket_id, username, display_name)
    IN  [users |-> Put(us, socket_id, user),
         usernames |-> Put(un, display_name, socket_id),
         user_counter |-> counter,
         user |-> user]

\* UserHandler.register_user: no check for an existing record of socket_id
register_user(us, un, counter, socket_id, username) ==
    LET display_name == DisplayName(counter, username)
        user == User(socket_id, username, display_name)
    IN  [users |-> Put(us, socket_id, user),
         usernames |-> Put(un, display_name, socket_id),
         user_counter |-> counter + 1,
         user |-> user]

NoUser == [socket_id |-> 0, username |-> "", display_name |-> ""]

\* unregister_user without the membership test: dict.pop raises KeyError
unregister_user_unguarded(us, un, socket_id) ==
    IF socket_id \notin DOMAIN us
    THEN [users |-> us, usernames |-> un, user |-> NoUser, found |-> FALSE,
          raised |-> TRUE]
    ELSE [users |-> Drop(us, socket_id),
          usernames |-> Drop(un, us[socket_id].display_name),
          user |-> us[socket_id], found |-> TRUE, raised |-> FALSE]

\* UserHandler.unregister_user
unregister_user(us, un, socket_id) ==
    IF socket_id \notin DOMAIN us
    THEN [users |-> us, usernames |-> un, user |-> NoUser, found |-> FALSE,
          raised |-> FALSE]
    ELSE [users |-> Drop(us, socket_id),
          usernames |-> Drop(un, us[socket_id].display_name),
          user |-> us[socket_id], found |-> TRUE, raised |-> FALSE]

\* get_username with a default name for a socket id that is not registered
get_username_default(us, socket_id) ==
    IF socket_id \in DOMAIN us THEN us[socket_id].display_name ELSE "nobody"

\* UserHandler.get_username: the display name, or "" for None
get_username(us, socket_id) ==
    IF socket_id \in DOMAIN us THEN us[socket_id].display_name ELSE ""

\* UserHandler.get_socket_id_by_username: the socket id, or 0 for None
get_socket_id_by_username(un, username) == Get(un, username, 0)

(***************************************************************************)
(* services/rooms.py                                                       *)
(***************************************************************************)
Room(created_by, max_users) ==
    [created_by |-> created_by, max_users |-> max_users, members |-> {},
     admins |-> {created_by}, message_history |-> <<>>]

\* Outcome of a RoomService call: the stores after it, and the RoomError raised
\* ("" when none)
Outcome(rs, ur, error) == [rooms |-> rs, user_rooms |-> ur, error |-> error]

\* create_room without the test for an existing id
create_room_overwriting(rs, ur, room_id, created_by, max_users) ==
    Outcome(Put(rs, room_id, Room(created_by, max_users)), ur, "")

\* RoomService.create_room
RoomService_create_room(rs, ur, room_id, created_by, max_users) ==
    IF room_id \in DOMAIN rs
    THEN Outcome(rs, ur, "already exists")
    ELSE Outcome(Put(rs, room_id, Room(created_by, max_users)), ur, "")

\* delete_room without the test that the requester is an admin or the creator
delete_room_by_anyone(rs, ur, room_id, requested_by) ==
    IF room_id = "general"
    THEN Outcome(rs, ur, "default room")
    ELSE IF room_id \notin DOMAIN rs
    THEN Outcome(rs, ur, "does not exist")
    ELSE Outcome(Drop(rs, room_id),
                 [u \in DOMAIN ur |-> ur[u] \ {room_id}], "")

\* delete_room without the test for the default room
delete_room_unprotected(rs, ur, room_id, requested_by) ==
    IF room_id \notin DOMAIN rs
    THEN Outcome(rs, ur, "does not exist")
    ELSE IF requested_by \notin rs[room_id].admins
            /\ requested_by # rs[room_id].created_by
    THEN Outcome(rs, ur, "only admins")
    ELSE Outcome(Drop(rs, room_id),
                 [u \in DOMAIN ur |-> ur[u] \ {room_id}], "")

\* RoomService.delete_room
RoomService_delete_room(rs, ur, room_id, requested_by) ==
    IF room_id = "general"
    THEN Outcome(rs, ur, "default room")
    ELSE IF room_id \notin DOMAIN rs
    THEN Outcome(rs, ur, "does not exist")
    ELSE IF requested_by \notin rs[room_id].admins
            /\ requested_by # rs[room_id].created_by
    THEN Outcome(rs, ur, "only admins")
    ELSE Outcome(Drop(rs, room_id),
                 [u \in DOMAIN ur |-> ur[u] \ {room_id}], "")

\* make_admin without the test that the requester is an admin
make_admin_unchecked(rs, ur, room_id, username, requested_by) ==
    IF room_id \notin DOMAIN rs
    THEN Outcome(rs, ur, "does not exist")
    ELSE Outcome([rs EXCEPT ![room_id].admins = @ \cup {username}], ur, "")

\* RoomService.make_admin
RoomService_make_admin(rs, ur, room_id, username, requested_by) ==
    IF room_id \notin DOMAIN rs
    THEN Outcome(rs, ur, "does not exist")
    ELSE IF requested_by \notin rs[room_id].admins
    THEN Outcome(rs, ur, "only admins can add")
    ELSE Outcome([rs EXCEPT ![room_id].admins = @ \cup {username}], ur, "")

\* join_room with the capacity test off by one (> instead of >=)
join_room_off_by_one(rs, ur, room_id, user_id, username) ==
    IF room_id \notin DOMAIN rs
    THEN Outcome(rs, ur, "does not exist")
    ELSE IF Cardinality(rs[room_id].members) > rs[room_id].max_users
    THEN Outcome(rs, ur, "full")
    ELSE Outcome([rs EXCEPT ![room_id].members = @ \cup {username}],
                 Put(ur, user_id, Get(ur, user_id, {}) \cup {room_id}), "")

\* RoomService.join_room
RoomService_join_room(rs, ur, room_id, user_id, username) ==
    IF room_id \notin DOMAIN rs
    THEN Outcome(rs, ur, "does not exist")
    ELSE IF Cardinality(rs[room_id].members) >= rs[room_id].max_users
    THEN Outcome(rs, ur, "full")
    ELSE Outcome([rs EXCEPT ![room_id].members = @ \cup {username}],
                 Put(ur, user_id, Get(ur, user_id, {}) \cup {room_id}), "")

\* RoomService.leave_room: the stores after it and the boolean it returns
RoomService_leave_room(rs, ur, room_id, user_id, username) ==
    IF room_id \notin DOMAIN rs
    THEN [rooms |-> rs, user_rooms |-> ur, ret |-> FALSE]
    ELSE [rooms |-> [rs EXCEPT ![room_id].members = @ \ {username}],
          user_rooms |-> IF user_id \in DOMAIN ur
                         THEN [ur EXCEPT ![user_id] = @ \ {room_id}]
                         ELSE ur,
          ret |-> TRUE]

\* RoomService.leave_all_rooms: the stores after it and the set of rooms left
RoomService_leave_all_rooms(rs, ur, user_id, username) ==
    IF user_id \in DOMAIN ur
    THEN LET left == ur[user_id] \cap DOMAIN rs
         IN  [rooms |-> [r \in DOMAIN rs |->
                            IF r \in left
                            THEN [rs[r] EXCEPT !.members = @ \ {username}]
                            ELSE rs[r]],
              user_rooms |-> Drop(ur, user_id),
              left_rooms |-> left]
    ELSE [rooms |-> rs, user_rooms |-> ur, left_rooms |-> {}]

\* messages[-n:] for n > 0
LastN(messages, n) ==
    IF Len(messages) > n
    THEN SubSeq(messages, Len(messages) - n + 1, Len(messages))
    ELSE messages

\* the trim keeping the oldest entries: messages[:n]
TrimHead(messages, n) ==
    IF Len(messages) > n THEN SubSeq(messages, 1, n) ELSE messages

\* the trim of add_message_to_history: message_history[-self._history_limit:]
TrimHistory(messages, n) == LastN(messages, n)

\* RoomService.add_message_to_history
add_message_to_history(rs, room_id, message) ==
    IF room_id \notin DOMAIN rs
    THEN rs
    ELSE [rs EXCEPT ![room_id].message_history =
              TrimHistory(Append(@, message), HistoryLimit)]

(***************************************************************************)
(* handlers/message_handler.py                                             *)
(***************************************************************************)
Whitespace == {" "}

RECURSIVE LStrip(_)
LStrip(s) == IF s # <<>> /\ Head(s) \in Whitespace THEN LStrip(Tail(s)) ELSE s

RECURSIVE RStrip(_)
RStrip(s) ==
    IF s # <<>> /\ s[Len(s)] \in Whitespace
    THEN RStrip(SubSeq(s, 1, Len(s) - 1))
    ELSE s

\* str.strip()
Strip(s) == RStrip(LStrip(s))

\* validate_message that trims the message before it tests the length
validate_trimmed(message) ==
    IF Strip(message) = <<>> THEN "empty"
    ELSE IF Len(Strip(message)) > MaxMessageLength THEN "too long"
    ELSE ""

\* MessageHandler.validate_message: "" when valid, else the error
validate_message(message) ==
    IF message = <<>> THEN "empty"
    ELSE IF Len(message) > MaxMessageLength THEN "too long"
    ELSE IF Strip(message) = <<>> THEN "empty"
    ELSE ""

\* MessageHandler.format_message; content is [cipher, text]: a plaintext or the
\* ciphertext of one
format_message(username, content, room, encrypted, now) ==
    [id |-> <<username, now>>, sender |-> username, content |-> content,
     room |-> room, type |-> "text", encrypted |-> encrypted,
     unix_timestamp |-> now]

(***************************************************************************)
(* handlers/message_handler.py: the scheduling queues                      *)
(***************************************************************************)
\* the return value None
None == <<>>

\* msg_data of add_to_queue
MsgData(username, message, timestamp) == <<username, message, timestamp>>

\* __setitem__ that appends also when the key is present
SetItemAppending(d, key, value) == Append(d, <<key, value>>)

\* OrderedDict.__setitem__ on the item list d: the value of a key that is
\* present is replaced where it stands, a new key is appended
SetItem(d, key, value) ==
    IF \E i \in 1..Len(d) : d[i][1] = key
    THEN [i \in 1..Len(d) |-> IF d[i][1] = key THEN <<key, value>> ELSE d[i]]
    ELSE Append(d, <<key, value>>)

\* del d[key]
DelItem(d, key) == SelectSeq(d, LAMBDA item : item[1] # key)

\* min(d, key=d.get): the first key, in iteration order, of the least value
MinKey(d) ==
    LET i == CHOOSE i \in 1..Len(d) :
                 /\ \A j \in 1..Len(d) : d[i][2] <= d[j][2]
                 /\ \A j \in 1..(i - 1) : d[j][2] > d[i][2]
    IN  d[i][1]

\* the sort key compared strictly: an element goes before the elements whose
\* key equals its own
SortKeyLT(x, y) ==
    \/ -x[1] < -y[1]
    \/ (-x[1] = -y[1] /\ x[2] < y[2])

\* the sort key of add_to_queue, lambda x: (-x[0], x[1]), compared as tuples
SortKeyLE(x, y) ==
    \/ -x[1] < -y[1]
    \/ (-x[1] = -y[1] /\ x[2] <= y[2])

\* list.sort(key=...) is stable: an element goes behind the elements whose key
\* is not greater than its own
RECURSIVE Sorted(_)
Sorted(s) ==
    IF s = <<>> THEN <<>>
    ELSE LET front == Sorted(SubSeq(s, 1, Len(s) - 1))
             x == s[Len(s)]
             k == Cardinality({i \in 1..Len(front) : SortKeyLE(front[i], x)})
         IN  SubSeq(front, 1, k) \o <<x>> \o SubSeq(front, k + 1, Len(front))

\* a MessageHandler call: method, arguments, return value
Call(op, arg, ret) == [op |-> op, arg |-> arg, ret |-> ret]

\* the names of the processors of process_message
Algorithms == {"FCFS", "FIFO", "LRU", "ROUND_ROBIN", "PRIORITY"}

\* str.upper() on the algorithm names callers pass
Upper(algorithm) ==
    CASE algorithm = "fcfs" -> "FCFS"
      [] algorithm = "fifo" -> "FIFO"
      [] algorithm = "lru" -> "LRU"
      [] algorithm = "round_robin" -> "ROUND_ROBIN"
      [] algorithm = "priority" -> "PRIORITY"
      [] algorithm = "random" -> "RANDOM"
      [] OTHER -> algorithm

\* MessageHandler.__init__
InitMessageHandler ==
    /\ fcfs_queue = <<>>
    /\ fifo_queue = <<>>
    /\ lru_queue = <<>>
    /\ priority_queue = <<>>
    /\ round_robin_queue = <<>>
    /\ current_algorithm = "FCFS"
    /\ time = 0
    /\ admitted = <<>>
    /\ dispatched = [a \in Algorithms |-> <<>>]

\* the clock advances between calls
tick ==
    /\ time < MaxTime
    /\ time' = time + 1
    /\ UNCHANGED <<appVars, queueVars, current_algorithm, mhCall, admitted,
                   dispatched>>

\* MessageHandler.add_to_queue
add_to_queue(username, message, priority) ==
    /\ Len(admitted) < MaxAdmissions
    /\ LET timestamp == time
           msg_data == MsgData(username, message, timestamp)
       IN  /\ fcfs_queue' = Append(fcfs_queue, msg_data)
           /\ fifo_queue' = Append(fifo_queue, msg_data)
           /\ lru_queue' = SetItem(lru_queue, <<username, message>>, timestamp)
           /\ priority_queue' =
                  Sorted(Append(priority_queue,
                                <<priority, timestamp, username, message>>))
           /\ round_robin_queue' = Append(round_robin_queue, msg_data)
           /\ admitted' = Append(admitted, [username |-> username,
                                            message |-> message,
                                            priority |-> priority,
                                            timestamp |-> timestamp])
           /\ mhCall' = Call("add_to_queue", <<username, message, priority>>, None)
    /\ UNCHANGED <<appVars, current_algorithm, time, dispatched>>

\* a dispatch that takes the newest entry of the deque (pop for popleft)
PopRight(queue) ==
    IF queue # <<>>
    THEN [queue |-> SubSeq(queue, 1, Len(queue) - 1),
          ret |-> <<queue[Len(queue)][1], queue[Len(queue)][2]>>]
    ELSE [queue |-> queue, ret |-> None]

\* process_fcfs, process_fifo and process_round_robin on their deque
PopLeft(queue) ==
    IF queue # <<>>
    THEN [queue |-> Tail(queue), ret |-> <<Head(queue)[1], Head(queue)[2]>>]
    ELSE [queue |-> queue, ret |-> None]

\* MessageHandler.process_lru
process_lru(d) ==
    IF d # <<>>
    THEN [queue |-> DelItem(d, MinKey(d)), ret |-> MinKey(d)]
    ELSE [queue |-> d, ret |-> None]

\* MessageHandler.process_priority
process_priority(queue) ==
    IF queue # <<>>
    THEN [queue |-> Tail(queue), ret |-> <<Head(queue)[3], Head(queue)[4]>>]
    ELSE [queue |-> queue, ret |-> None]

\* the processor process_message selects: processors.get(algo.upper(),
\* self.process_fcfs), with algo = algorithm or self.current_algorithm
Processor(algorithm) ==
    LET algo == IF algorithm = "" THEN current_algorithm ELSE algorithm
    IN  IF Upper(algo) \in Algorithms THEN Upper(algo) ELSE "FCFS"

\* MessageHandler.process_message; algorithm "" stands for None. A round-robin
\* dispatch sleeps for its time slice, so the clock has advanced when it returns
process_message(algorithm) ==
    LET p == Processor(algorithm)
        r == CASE p = "FCFS" -> PopLeft(fcfs_queue)
               [] p = "FIFO" -> PopLeft(fifo_queue)
               [] p = "LRU" -> process_lru(lru_queue)
               [] p = "ROUND_ROBIN" -> PopLeft(round_robin_queue)
               [] p = "PRIORITY" -> process_priority(priority_queue)
        slept == p = "ROUND_ROBIN" /\ round_robin_queue # <<>>
    IN  /\ slept => time < MaxTime
        /\ time' = IF slept THEN time + 1 ELSE time
        /\ fcfs_queue' = IF p = "FCFS" THEN r.queue ELSE fcfs_queue
        /\ fifo_queue' = IF p = "FIFO" THEN r.queue ELSE fifo_queue
        /\ lru_queue' = IF p = "LRU" THEN r.queue ELSE lru_queue
        /\ round_robin_queue' =
               IF p = "ROUND_ROBIN" THEN r.queue ELSE round_robin_queue
        /\ priority_queue' = IF p = "PRIORITY" THEN r.queue ELSE priority_queue
        /\ dispatched' = IF r.ret = None THEN dispatched
                         ELSE [dispatched EXCEPT ![p] = Append(@, r.ret)]
        /\ mhCall' = Call("process_message", algorithm, r.ret)
        /\ UNCHANGED <<appVars, current_algorithm, admitted>>

\* MessageHandler.set_algorithm
set_algorithm(algorithm) ==
    /\ current_algorithm' = IF Upper(algorithm) \in Algorithms
                            THEN Upper(algorithm)
                            ELSE current_algorithm
    /\ mhCall' = Call("set_algorithm", algorithm, Upper(algorithm) \in Algorithms)
    /\ UNCHANGED <<appVars, queueVars, time, admitted, dispatched>>

\* MessageHandler.validate_message, called on the message the pending call
\* carries
validate ==
    /\ mhCall.op = "validate_message"
    /\ mhCall.ret = "pending"
    /\ mhCall' = Call("validate_message", mhCall.arg, validate_message(mhCall.arg))
    /\ UNCHANGED <<appVars, queueVars, current_algorithm, time, admitted,
                   dispatched>>

(***************************************************************************)
(* services/encryption.py                                                  *)
(***************************************************************************)
Plain(text) == [cipher |-> FALSE, text |-> text]
Cipher(text) == [cipher |-> TRUE, text |-> text]

\* the methods class EncryptionService defines
EncryptionService_methods ==
    {"generate_key", "_derive_key", "encrypt", "decrypt", "create_room_key",
     "set_room_key"}

\* the call encryption.encrypt_for_room(room, msg) of handle_message: the
\* attribute lookup raises AttributeError when the class has no such method
encrypt_for_room(room, text) ==
    IF "encrypt_for_room" \in EncryptionService_methods
    THEN [raised |-> FALSE, value |-> Cipher(text)]
    ELSE [raised |-> TRUE, value |-> Plain(text)]

\* a value received as message content or handed to the encryption service: a
\* str (of the characters text) or a number (str is FALSE); cipher tells a
\* Fernet token, made under key at time stamp from the bytes text, whose
\* signature verifies while intact
JsonStr(text) ==
    [key |-> "", text |-> text, cipher |-> FALSE, str |-> TRUE, stamp |-> 0,
     intact |-> TRUE]
JsonNum(text) ==
    [key |-> "", text |-> text, cipher |-> FALSE, str |-> FALSE, stamp |-> 0,
     intact |-> TRUE]
Token(key, stamp, bytes) ==
    [key |-> key, text |-> bytes, cipher |-> TRUE, str |-> TRUE,
     stamp |-> stamp, intact |-> TRUE]

\* the key EncryptionService derives from config.SECRET_KEY
MasterKey == "SECRET_KEY"

\* a character that str.encode('utf-8') rejects: a lone surrogate, which
\* json.loads produces from the escape \ud800
LoneSurrogate == "surrogate"

\* the UTF-8 bytes of a character: one for ASCII, two for e-acute
Utf8Bytes(ch) ==
    CASE ch = "a" -> <<97>>
      [] ch = " " -> <<32>>
      [] ch = "5" -> <<53>>
      [] ch = "eacute" -> <<195, 169>>

\* what a call returned or raised
Returned(value) == [raised |-> FALSE, error |-> "", value |-> value]
Raised(error) == [raised |-> TRUE, error |-> error, value |-> None]

\* str.encode('utf-8')
RECURSIVE utf8_encode(_)
utf8_encode(text) ==
    IF text = <<>> THEN Returned(<<>>)
    ELSE IF Head(text) = LoneSurrogate THEN Raised("UnicodeEncodeError")
    ELSE LET rest == utf8_encode(Tail(text))
         IN  IF rest.raised THEN rest
             ELSE Returned(Utf8Bytes(Head(text)) \o rest.value)

\* bytes.decode that takes every byte for a character of its own
RECURSIVE utf8_decode_bytewise(_)
utf8_decode_bytewise(bytes) ==
    IF bytes = <<>> THEN Returned(<<>>)
    ELSE LET rest == utf8_decode_bytewise(Tail(bytes))
         IN  Returned(<<IF Head(bytes) = 97 THEN "a"
                        ELSE IF Head(bytes) = 32 THEN " "
                        ELSE IF Head(bytes) = 53 THEN "5"
                        ELSE "?">> \o rest.value)

\* bytes.decode('utf-8')
RECURSIVE utf8_decode(_)
utf8_decode(bytes) ==
    IF bytes = <<>> THEN Returned(<<>>)
    ELSE LET two == Len(bytes) >= 2 /\ bytes[1] = 195 /\ bytes[2] = 169
             one == bytes[1] \in {32, 53, 97}
             rest == utf8_decode(IF two THEN Tail(Tail(bytes)) ELSE Tail(bytes))
         IN  IF ~(one \/ two) THEN Raised("UnicodeDecodeError")
             ELSE IF rest.raised THEN rest
             ELSE Returned(<<CASE two -> "eacute"
                               [] bytes[1] = 97 -> "a"
                               [] bytes[1] = 32 -> " "
                               [] bytes[1] = 53 -> "5">> \o rest.value)

\* the messages of the two EncryptionError that decrypt raises, and of the
\* one that encrypt raises
InvalidTokenError == "Invalid token - message may be corrupted or tampered with"
DecryptError == "Failed to decrypt message"
EncryptError == "Failed to encrypt message"

\* EncryptionService.encrypt at time t: message.encode raises for a value
\* that is no string and for a string UTF-8 cannot encode, and every exception
\* is re-raised as EncryptionError
EncryptionService_encrypt(content, t) ==
    IF ~content.str THEN Raised(EncryptError)
    ELSE LET bytes == utf8_encode(content.text)
         IN  IF bytes.raised THEN Raised(EncryptError)
             ELSE Returned(Token(MasterKey, t, bytes.value))

\* Fernet.decrypt accepts a token: it is well formed and its signature
\* verifies under the service's key; anything else raises InvalidToken
Fernet_accepts(value) ==
    value.cipher /\ value.intact /\ value.key = MasterKey

\* EncryptionService.decrypt that reports every failure alike
decrypt_one_error(encrypted_message) ==
    IF ~encrypted_message.str THEN Raised(DecryptError)
    ELSE IF utf8_encode(IF encrypted_message.cipher THEN <<>>
                        ELSE encrypted_message.text).raised
    THEN Raised(DecryptError)
    ELSE IF ~Fernet_accepts(encrypted_message) THEN Raised(DecryptError)
    ELSE LET decrypted == utf8_decode(encrypted_message.text)
         IN  IF decrypted.raised THEN Raised(DecryptError)
             ELSE Returned(JsonStr(decrypted.value))

\* EncryptionService.decrypt: encrypted_message.encode raises for a value that
\* is no string or that UTF-8 cannot encode (a token is ASCII), Fernet raises
\* InvalidToken, and the decrypted bytes are decoded
EncryptionService_decrypt(encrypted_message) ==
    IF ~encrypted_message.str THEN Raised(DecryptError)
    ELSE IF utf8_encode(IF encrypted_message.cipher THEN <<>>
                        ELSE encrypted_message.text).raised
    THEN Raised(DecryptError)
    ELSE IF ~Fernet_accepts(encrypted_message) THEN Raised(InvalidTokenError)
    ELSE LET decrypted == utf8_decode(encrypted_message.text)
         IN  IF decrypted.raised THEN Raised(DecryptError)
             ELSE Returned(JsonStr(decrypted.value))

(***************************************************************************)
(* handlers/private_message_handler.py                                     *)
(***************************************************************************)
\* the position of a name in the order of str: 'a' < 'a_b' < 'alice' < 'b_c'
\* < 'bob' < 'c' < 'nobody' sort before the display names ('_' sorts before
\* the lower-case letters), and display names sort by their counter while it
\* has one digit
NameRank(name) ==
    CASE name = "a" -> -6
      [] name = "a_b" -> -5
      [] name = "alice" -> -4
      [] name = "b_c" -> -3
      [] name = "bob" -> -2
      [] name = "c" -> -1
      [] name = "nobody" -> 0
      [] OTHER -> CHOOSE k \in 1..(MaxRegs + 1) :
                      \E username \in RawNames : name = DisplayName(k, username)

\* a conversation id built from the names in the order given
conversation_id_as_given(user1, user2) ==
    "dm_" \o user1 \o "_" \o user2

\* PrivateMessageHandler._get_conversation_id
conversation_id(user1, user2) ==
    LET sorted == IF NameRank(user1) <= NameRank(user2)
                  THEN <<user1, user2>> ELSE <<user2, user1>>
    IN  "dm_" \o sorted[1] \o "_" \o sorted[2]

\* PrivateMessageHandler.send_message at time t, service telling whether
\* self.encryption is set: the conversations after it and the message returned
PrivateMessageHandler_send_message(convs, service, sender, receiver, content, encrypt, t) ==
    LET conv_id == conversation_id(sender, receiver)
        attempt == encrypt /\ service
        e == EncryptionService_encrypt(content, t)
        message == [content |-> IF attempt /\ ~e.raised THEN e.value ELSE content,
                    encrypted |-> IF attempt /\ e.raised THEN FALSE ELSE encrypt,
                    id |-> <<"pm", t>>, sender |-> sender, receiver |-> receiver,
                    read |-> FALSE]
    IN  [conversations |->
             Put(convs, conv_id,
                 LastN(Append(Get(convs, conv_id, <<>>), message), PmHistoryLimit)),
         message |-> message]

\* the slice messages[-limit:]: the last limit elements for a positive limit,
\* and the elements from index -limit on otherwise, which is all of them for 0
SliceFromMinus(messages, limit) ==
    IF limit > 0 THEN LastN(messages, limit)
    ELSE SubSeq(messages, 1 - limit, Len(messages))

\* PrivateMessageHandler.get_conversation
PrivateMessageHandler_get_conversation(convs, user1, user2, limit) ==
    SliceFromMinus(Get(convs, conversation_id(user1, user2), <<>>), limit)

\* PrivateMessageHandler.decrypt_message: the dict it was given, after it
PrivateMessageHandler_decrypt_message(service, message) ==
    LET d == EncryptionService_decrypt(message.content)
    IN  IF message.encrypted /\ service /\ ~d.raised
        THEN [message EXCEPT !.content = d.value, !.encrypted = FALSE]
        ELSE message

\* every unread message of a conversation, whoever receives it
FlipsAny(messages, receiver) ==
    {i \in 1..Len(messages) : ~messages[i].read}

\* the messages mark_as_read(sender, receiver) flips: the unread ones of the
\* conversation that receiver receives
Flips(messages, receiver) ==
    {i \in 1..Len(messages) :
        messages[i].receiver = receiver /\ ~messages[i].read}

\* PrivateMessageHandler.mark_as_read: the conversations after it and the
\* count returned
PrivateMessageHandler_mark_as_read(convs, sender, receiver) ==
    LET conv_id == conversation_id(sender, receiver)
        messages == Get(convs, conv_id, <<>>)
        flips == Flips(messages, receiver)
    IN  [conversations |->
             IF conv_id \in DOMAIN convs
             THEN Put(convs, conv_id,
                      [i \in 1..Len(messages) |->
                          IF i \in flips THEN [messages[i] EXCEPT !.read = TRUE]
                          ELSE messages[i]])
             ELSE convs,
         count |-> Cardinality(flips)]

\* PrivateMessageHandler.get_unread_count
PrivateMessageHandler_get_unread_count(convs, username) ==
    LET unread(messages) == Cardinality(Flips(messages, username))
        Sum[ids \in SUBSET DOMAIN convs] ==
            IF ids = {} THEN 0
            ELSE LET id == CHOOSE id \in ids : TRUE
                 IN  unread(convs[id]) + Sum[ids \ {id}]
    IN  Sum[DOMAIN convs]

(***************************************************************************)
(* handlers/room_handler.py: RoomError becomes {success: False, error}     *)
(***************************************************************************)
Result(o) ==
    [rooms |-> o.rooms, user_rooms |-> o.user_rooms,
     success |-> (o.error = ""), error |-> o.error]

\* '...'.lower().replace(' ', '-') on the raw room ids of RawRoomIds
NormalizeRoomId(raw) ==
    CASE raw = "" -> ""
      [] raw = "general" -> "general"
      [] raw = "Team" -> "team"

RoomHandler_create_room(rs, ur, raw_room_id, max_users, username) ==
    LET room_id == NormalizeRoomId(raw_room_id)
    IN  IF room_id = ""
        THEN Result(Outcome(rs, ur, "Room ID is required"))
        ELSE Result(RoomService_create_room(rs, ur, room_id, username, max_users))

RoomHandler_join_room(rs, ur, room_id, user_id, username) ==
    Result(RoomService_join_room(rs, ur, room_id, user_id, username))

RoomHandler_leave_room(rs, ur, room_id, user_id, username) ==
    LET o == RoomService_leave_room(rs, ur, room_id, user_id, username)
    IN  [rooms |-> o.rooms, user_rooms |-> o.user_rooms, success |-> o.ret,
         error |-> ""]

RoomHandler_delete_room(rs, ur, room_id, username) ==
    Result(RoomService_delete_room(rs, ur, room_id, username))

RoomHandler_handle_disconnect(rs, ur, user_id, username) ==
    RoomService_leave_all_rooms(rs, ur, user_id, username)

(***************************************************************************)
(* app.py: the socket event handlers                                       *)
(***************************************************************************)
Event(op, sid, user, room, ret, raised, emits) ==
    [op |-> op, sid |-> sid, user |-> user, room |-> room, ret |-> ret,
     raised |-> raised, emits |-> emits]

\* emit(event) to the requester, to everyone, to a room
ToSender(event) == <<event, "sender">>
Broadcast(event) == <<event, "broadcast">>
ToRoom(event, room) == <<event, "room", room>>

\* every display name handed out so far
AllAssigned == UNION {assigned[c] : c \in Conns}

\* the stores after the module initialisation of app.py
InitStores ==
    /\ users = EmptyDict
    /\ usernames = EmptyDict
    /\ user_counter = 1
    /\ rooms = Put(EmptyDict, "general", Room("System", DefaultMaxUsers))
    /\ user_rooms = EmptyDict
    /\ clock = 0
    /\ lastEvent = Event("init", 0, "", "", "", FALSE, {})
    /\ closed = {}
    /\ assigned = [c \in Conns |-> {}]
    /\ appended = Put(EmptyDict, "general", <<>>)
    /\ conversations = EmptyDict
    /\ pmCall = Call("__init__", None, None)
    /\ pmSent = <<>>
    /\ encCall = Call("__init__", None, None)
    /\ joining = [c \in Conns |-> <<>>]
    /\ leaving = [c \in Conns |-> ""]
    /\ InitMessageHandler

\* pm_handler is constructed with the encryption service
Init ==
    /\ InitStores
    /\ encryption = TRUE
    /\ mhCall = Call("__init__", None, None)

\* @socketio.on('disconnect')
handle_disconnect(c) ==
    LET u == unregister_user(users, usernames, c)
        l == RoomHandler_handle_disconnect(rooms, user_rooms, c, u.user.display_name)
    IN  /\ closed' = closed \cup {c}
        /\ UNCHANGED <<user_counter, clock, assigned, appended, pmVars, stepVars, mhVars>>
        /\ IF u.raised
           THEN /\ lastEvent' = Event("disconnect", c, "", "", "", TRUE, {})
                /\ UNCHANGED <<users, usernames, rooms, user_rooms>>
           ELSE IF ~u.found
           THEN /\ lastEvent' = Event("disconnect", c, "", "", "None", FALSE, {})
                /\ UNCHANGED <<users, usernames, rooms, user_rooms>>
           ELSE /\ users' = u.users
                /\ usernames' = u.usernames
                /\ rooms' = l.rooms
                /\ user_rooms' = l.user_rooms
                /\ lastEvent' =
                       Event("disconnect", c, u.user.display_name, "", "user", FALSE,
                             {Broadcast("message"), Broadcast("update_user_list")}
                             \cup {ToRoom("user_left_room", r) : r \in l.left_rooms})

\* @socketio.on('set_username'), while fewer than `registrations`
\* registrations have been made
set_username(c, username, registrations) ==
    /\ c \notin closed
    /\ user_counter <= registrations
    /\ LET r == register_user(users, usernames, user_counter, c, username)
           j == RoomHandler_join_room(rooms, user_rooms, "general", c,
                                      r.user.display_name)
       IN  /\ users' = r.users
           /\ usernames' = r.usernames
           /\ user_counter' = r.user_counter
           /\ rooms' = j.rooms
           /\ user_rooms' = j.user_rooms
           /\ assigned' = [assigned EXCEPT ![c] = @ \cup {r.user.display_name}]
           /\ lastEvent' =
                  Event("set_username", c, r.user.display_name, "general", "ok", FALSE,
                        {Broadcast("message"), Broadcast("update_user_list"),
                         ToSender("username_set"), ToSender("room_list")})
    /\ UNCHANGED <<clock, closed, appended, pmVars, stepVars, mhVars>>

handle_set_username(c, username) == set_username(c, username, MaxRegs)

\* handle_message without the return that follows the error emit: an invalid
\* message is reported and then stored and broadcast all the same
handle_message_no_return(c, text, room, encrypt) ==
    /\ c \notin closed
    /\ clock < MaxMsgs
    /\ UNCHANGED <<regVars, user_rooms, closed, assigned, pmVars, stepVars, mhVars>>
    /\ LET username == get_username(users, c)
           error == validate_message(text)
           formatted == format_message(username, Plain(text), room, encrypt,
                                       clock + 1)
       IN  IF username = ""
           THEN /\ lastEvent' = Event("message", c, "", room, "ignored", FALSE, {})
                /\ UNCHANGED <<rooms, clock, appended>>
           ELSE /\ clock' = clock + 1
                /\ rooms' = add_message_to_history(rooms, room, formatted)
                /\ appended' = IF room \in DOMAIN rooms
                               THEN [appended EXCEPT ![room] = Append(@, formatted)]
                               ELSE appended
                /\ lastEvent' =
                       Event("message", c, username, room,
                             IF error # "" THEN error ELSE "ok", FALSE,
                             {ToRoom("receive_message", room)}
                             \cup IF error # "" THEN {ToSender("error")} ELSE {})

\* @socketio.on('message'), data = {message, room, encrypt}
handle_message(c, text, room, encrypt) ==
    /\ c \notin closed
    /\ clock < MaxMsgs
    /\ UNCHANGED <<regVars, user_rooms, closed, assigned, pmVars, stepVars, mhVars>>
    /\ LET username == get_username(users, c)
           error == validate_message(text)
           e == encrypt_for_room(room, text)
           msg == IF encrypt /\ ~e.raised THEN e.value ELSE Plain(text)
           formatted == format_message(username, msg, room, encrypt, clock + 1)
       IN  IF username = ""
           THEN /\ lastEvent' = Event("message", c, "", room, "ignored", FALSE, {})
                /\ UNCHANGED <<rooms, clock, appended>>
           ELSE IF error # ""
           THEN /\ lastEvent' = Event("message", c, username, room, error, FALSE,
                                      {ToSender("error")})
                /\ UNCHANGED <<rooms, clock, appended>>
           ELSE /\ clock' = clock + 1
                /\ rooms' = add_message_to_history(rooms, room, formatted)
                /\ appended' = IF room \in DOMAIN rooms
                               THEN [appended EXCEPT ![room] = Append(@, formatted)]
                               ELSE appended
                /\ lastEvent' = Event("message", c, username, room, "ok", FALSE,
                                      {ToRoom("receive_message", room)})

\* @socketio.on('create_room'), data = {room_id, max_users}
handle_create_room(c, raw_room_id, max_users) ==
    /\ c \notin closed
    /\ UNCHANGED <<regVars, clock, closed, assigned, pmVars, stepVars, mhVars>>
    /\ LET username == get_username(users, c)
           result == RoomHandler_create_room(rooms, user_rooms, raw_room_id,
                                             max_users, username)
           room_id == NormalizeRoomId(raw_room_id)
       IN  IF username = ""
           THEN /\ lastEvent' = Event("create_room", c, "", room_id, "ignored", FALSE, {})
                /\ UNCHANGED <<rooms, user_rooms, appended>>
           ELSE /\ rooms' = result.rooms
                /\ user_rooms' = result.user_rooms
                /\ appended' = IF result.success
                               THEN Put(appended, room_id, <<>>)
                               ELSE appended
                /\ lastEvent' =
                       Event("create_room", c, username, room_id,
                             IF result.success THEN "ok" ELSE result.error, FALSE,
                             {ToSender("room_created")}
                             \cup IF result.success
                                  THEN {Broadcast("room_list")} ELSE {})

\* @socketio.on('join_room'), data = {room_id}
handle_join_room(c, room_id) ==
    /\ c \notin closed
    /\ UNCHANGED <<regVars, clock, histVars, pmVars, stepVars, mhVars>>
    /\ LET username == get_username(users, c)
           result == RoomHandler_join_room(rooms, user_rooms, room_id, c, username)
       IN  IF username = ""
           THEN /\ lastEvent' = Event("join_room", c, "", room_id, "ignored", FALSE, {})
                /\ UNCHANGED <<rooms, user_rooms>>
           ELSE /\ rooms' = result.rooms
                /\ user_rooms' = result.user_rooms
                /\ lastEvent' =
                       Event("join_room", c, username, room_id,
                             IF result.success THEN "ok" ELSE result.error, FALSE,
                             IF result.success
                             THEN {ToSender("joined_room"),
                                   ToRoom("user_joined_room", room_id)}
                             ELSE {})

\* @socketio.on('leave_room'), data = {room_id}
handle_leave_room(c, room_id) ==
    /\ c \notin closed
    /\ UNCHANGED <<regVars, clock, histVars, pmVars, stepVars, mhVars>>
    /\ LET username == get_username(users, c)
           result == RoomHandler_leave_room(rooms, user_rooms, room_id, c, username)
       IN  IF username = ""
           THEN /\ lastEvent' = Event("leave_room", c, "", room_id, "ignored", FALSE, {})
                /\ UNCHANGED <<rooms, user_rooms>>
           ELSE IF room_id = "general"
           THEN /\ lastEvent' = Event("leave_room", c, username, room_id,
                                      "Cannot leave the general room", FALSE,
                                      {ToSender("error")})
                /\ UNCHANGED <<rooms, user_rooms>>
           ELSE /\ rooms' = result.rooms
                /\ user_rooms' = result.user_rooms
                /\ lastEvent' =
                       Event("leave_room", c, username, room_id,
                             IF result.success THEN "ok" ELSE "failed", FALSE,
                             IF result.success
                             THEN {ToSender("left_room"),
                                   ToRoom("user_left_room", room_id)}
                             ELSE {})

\* RoomHandler.delete_room, called with any requester name (no socket event
\* is bound to it)
delete_room(room_id, requested_by) ==
    /\ UNCHANGED <<regVars, clock, closed, assigned, pmVars, stepVars, mhVars>>
    /\ LET result == RoomHandler_delete_room(rooms, user_rooms, room_id, requested_by)
       IN  /\ rooms' = result.rooms
           /\ user_rooms' = result.user_rooms
           /\ appended' = IF result.success THEN Drop(appended, room_id) ELSE appended
           /\ lastEvent' = Event("delete_room", 0, requested_by, room_id,
                                 IF result.success THEN "ok" ELSE result.error,
                                 FALSE, {})

\* the room events: registry, membership and room lifecycle
Next ==
    \/ \E c \in Conns : handle_disconnect(c)
    \/ \E c \in Conns, username \in RawNames : handle_set_username(c, username)
    \/ \E c \in Conns, raw \in RawRoomIds, max_users \in MaxUsersInputs :
           handle_create_room(c, raw, max_users)
    \/ \E c \in Conns, room_id \in RoomIds : handle_join_room(c, room_id)
    \/ \E c \in Conns, room_id \in RoomIds : handle_leave_room(c, room_id)
    \/ \E room_id \in RoomIds, requested_by \in AllAssigned \cup {"System"} :
           delete_room(room_id, requested_by)

Spec == Init /\ [][Next]_vars

\* the connection whose messages SpecMsg follows
Sender == 1

\* the message events of one connection, with the events that decide its
\* display name and the existence of the target room; create_room data
\* carries no max_users here, so the default applies
NextMsg ==
    \/ \E username \in RawNames : handle_set_username(Sender, username)
    \/ \E text \in MsgInputs, room \in RoomIds, encrypt \in BOOLEAN :
           handle_message(Sender, text, room, encrypt)
    \/ \E raw \in RawRoomIds : handle_create_room(Sender, raw, DefaultMaxUsers)
    \/ \E room_id \in RoomIds, requested_by \in AllAssigned \cup {"System"} :
           delete_room(room_id, requested_by)

SpecMsg == Init /\ [][NextMsg]_vars

\* RoomService.make_admin, called with any target and requester name (no
\* socket event is bound to it, so its RoomError reaches the caller)
make_admin(room_id, username, requested_by) ==
    /\ UNCHANGED <<regVars, user_rooms, clock, histVars, pmVars, stepVars, mhVars>>
    /\ LET o == RoomService_make_admin(rooms, user_rooms, room_id, username,
                                       requested_by)
       IN  /\ rooms' = o.rooms
           /\ lastEvent' = Event("make_admin", 0, requested_by, room_id,
                                 IF o.error = "" THEN "True" ELSE o.error,
                                 o.error # "", {})

\* the names a direct call of the room service is made in the name of (the
\* user made admin is one of the display names handed out)
CallerNames == AllAssigned \cup {"System"}

\* room administration: the events that create users (members of 'general')
\* and rooms, with make_admin and delete_room; create_room data carries no
\* max_users
NextAdmin ==
    \/ \E c \in Conns, username \in RawNames : handle_set_username(c, username)
    \/ \E c \in Conns, raw \in RawRoomIds :
           handle_create_room(c, raw, DefaultMaxUsers)
    \/ \E room_id \in RoomIds, username \in AllAssigned,
          requested_by \in CallerNames :
           make_admin(room_id, username, requested_by)
    \/ \E room_id \in RoomIds, requested_by \in CallerNames :
           delete_room(room_id, requested_by)

SpecAdmin == Init /\ [][NextAdmin]_vars

\* emit(event, room=sid): to the connection sid
ToSid(event, sid) == <<event, "sid", sid>>

\* @socketio.on('private_message'), data = {receiver, message, encrypt}
handle_private_message(c, receiver, content, encrypt) ==
    /\ c \notin closed
    /\ clock < MaxMsgs
    /\ UNCHANGED <<regVars, roomVars, histVars, encryption, pmCall, stepVars,
                   mhVars>>
    /\ LET sender == get_username(users, c)
           receiver_sid == get_socket_id_by_username(usernames, receiver)
           sent == PrivateMessageHandler_send_message(conversations, encryption,
                                                      sender, receiver, content,
                                                      encrypt, clock + 1)
       IN  IF sender = ""
           THEN /\ lastEvent' = Event("private_message", c, "", "", "ignored",
                                      FALSE, {})
                /\ UNCHANGED <<conversations, pmSent, clock>>
           ELSE IF receiver_sid = 0
           THEN /\ lastEvent' = Event("private_message", c, sender, "",
                                      "not found", FALSE, {ToSender("error")})
                /\ UNCHANGED <<conversations, pmSent, clock>>
           ELSE /\ clock' = clock + 1
                /\ conversations' = sent.conversations
                /\ pmSent' = Append(pmSent, sent.message)
                /\ lastEvent' =
                       Event("private_message", c, sender, "", "ok", FALSE,
                             {ToSid("private_message", receiver_sid),
                              ToSender("private_message_sent")})

\* [pm_handler.decrypt_message(m) for m in messages]: the dicts after it
Decrypted(messages) ==
    [i \in 1..Len(messages) |->
        PrivateMessageHandler_decrypt_message(encryption, messages[i])]

\* handle_get_conversation handing decrypt_message the stored dicts
\* themselves: what decrypt_message assigns is assigned in the conversation
handle_get_conversation_in_place(c, other_user) ==
    /\ c \notin closed
    /\ UNCHANGED <<regVars, roomVars, clock, histVars, encryption, pmCall, pmSent,
                   stepVars, mhVars>>
    /\ LET username == get_username(users, c)
           conv_id == conversation_id(username, other_user)
           stored == Get(conversations, conv_id, <<>>)
           messages == PrivateMessageHandler_get_conversation(
                           conversations, username, other_user, ConversationLimit)
       IN  IF username = ""
           THEN /\ lastEvent' = Event("get_conversation", c, "", "", "ignored",
                                      FALSE, {})
                /\ UNCHANGED conversations
           ELSE /\ conversations' =
                       IF conv_id \in DOMAIN conversations
                       THEN Put(conversations, conv_id,
                                SubSeq(stored, 1, Len(stored) - Len(messages))
                                    \o Decrypted(messages))
                       ELSE conversations
                /\ lastEvent' =
                       Event("get_conversation", c, username, "",
                             Decrypted(messages), FALSE,
                             {ToSender("conversation_history")})

\* @socketio.on('get_conversation'), data = {with_user}: decrypt_message is
\* handed m.copy() for each message, so what it assigns is assigned in the
\* copies, which the event returns, and the stored dicts stay as they are
handle_get_conversation(c, other_user) ==
    /\ c \notin closed
    /\ UNCHANGED <<regVars, roomVars, clock, histVars, pmVars, stepVars, mhVars>>
    /\ LET username == get_username(users, c)
           messages == PrivateMessageHandler_get_conversation(
                           conversations, username, other_user, ConversationLimit)
       IN  IF username = ""
           THEN lastEvent' = Event("get_conversation", c, "", "", "ignored",
                                   FALSE, {})
           ELSE lastEvent' =
                    Event("get_conversation", c, username, "",
                          Decrypted(messages), FALSE,
                          {ToSender("conversation_history")})

\* the names a private_message or get_conversation event may carry
PeerNames == AllAssigned \cup {"nobody"}
\* the content of the private messages sent
PmInputs == {JsonStr(<<"a">>), JsonNum(<<"5">>)}

\* the events that require a registered sender, from a connection that
\* registers once (Sender) and from one that never does; messages are sent in
\* their string form (room 'general', not encrypted) and create_room data
\* carries no max_users
NextGuest ==
    \/ \E username \in RawNames :
           Sender \notin DOMAIN users /\ handle_set_username(Sender, username)
    \/ \E c \in Conns, text \in MsgInputs : handle_message(c, text, "general", FALSE)
    \/ \E c \in Conns, raw \in RawRoomIds :
           handle_create_room(c, raw, DefaultMaxUsers)
    \/ \E c \in Conns, room_id \in RoomIds : handle_join_room(c, room_id)
    \/ \E c \in Conns, room_id \in RoomIds : handle_leave_room(c, room_id)
    \/ \E c \in Conns, receiver \in PeerNames, content \in PmInputs,
          encrypt \in BOOLEAN :
           handle_private_message(c, receiver, content, encrypt)
    \/ \E c \in Conns, other_user \in PeerNames : handle_get_conversation(c, other_user)

SpecGuest == Init /\ [][NextGuest]_vars

\* validate_message applied to any text
InitValidate ==
    /\ InitStores
    /\ encryption = TRUE
    /\ mhCall \in {Call("validate_message", text, "pending") : text \in Texts}

NextValidate == validate

SpecValidate == InitValidate /\ [][NextValidate]_vars

\* the algorithm names that select the FCFS or the FIFO processor; "" stands
\* for no argument, "random" for a name process_message does not know
FifoNames == {"", "FCFS", "FIFO", "fifo", "random"}

\* admissions of one sender's messages and FCFS/FIFO dispatches in any
\* interleaving
NextFifo ==
    \/ tick
    \/ \E message \in QueueTexts : add_to_queue("alice", message, 1)
    \/ \E algorithm \in FifoNames \ {""} : set_algorithm(algorithm)
    \/ \E algorithm \in FifoNames : process_message(algorithm)

SpecFifo == Init /\ [][NextFifo]_vars

\* the algorithm names that select the LRU processor
LruNames == {"LRU", "lru"}

\* admissions and LRU dispatches in any interleaving
NextLru ==
    \/ tick
    \/ \E username \in QueueUsers, message \in QueueTexts :
           add_to_queue(username, message, 1)
    \/ \E algorithm \in LruNames : set_algorithm(algorithm)
    \/ \E algorithm \in LruNames : process_message(algorithm)

SpecLru == Init /\ [][NextLru]_vars

\* the contents of the messages admitted with a priority
PriorityTexts == {"a", "b", "c"}
\* the algorithm names that select the priority processor
PriorityNames == {"PRIORITY", "priority"}

\* admissions of one sender's messages with priorities and dispatches by
\* priority, selected by the argument of process_message, in any interleaving
NextPriority ==
    \/ tick
    \/ \E message \in PriorityTexts, priority \in Priorities :
           add_to_queue("alice", message, priority)
    \/ \E algorithm \in PriorityNames : process_message(algorithm)

SpecPriority == Init /\ [][NextPriority]_vars

\* the algorithm names given to set_algorithm
PolicyNames == {"FCFS", "priority"}

\* admissions made while FCFS is the active algorithm, changes of the active
\* algorithm, and dispatches by the active algorithm (process_message without
\* an argument)
NextPolicy ==
    \/ tick
    \/ \E message \in QueueTexts, priority \in Priorities :
           current_algorithm = "FCFS" /\ add_to_queue("alice", message, priority)
    \/ \E algorithm \in PolicyNames : set_algorithm(algorithm)
    \/ process_message("")

SpecPolicy == Init /\ [][NextPolicy]_vars

\* the frame of a call of a PrivateMessageHandler method
PmFrame == UNCHANGED <<regVars, roomVars, lastEvent, histVars, encryption,
                       stepVars, mhVars>>

\* pm_handler.send_message(sender, receiver, content, encrypt)
send_message(sender, receiver, content, encrypt) ==
    /\ clock < MaxMsgs
    /\ clock' = clock + 1
    /\ LET sent == PrivateMessageHandler_send_message(conversations, encryption,
                                                      sender, receiver, content,
                                                      encrypt, clock + 1)
       IN  /\ conversations' = sent.conversations
           /\ pmSent' = Append(pmSent, sent.message)
           /\ pmCall' = Call("send_message", <<sender, receiver, encrypt>>,
                             sent.message)
    /\ PmFrame

\* pm_handler.get_conversation(user1, user2, limit)
get_conversation(user1, user2, limit) ==
    /\ pmCall' = Call("get_conversation", <<user1, user2, limit>>,
                      PrivateMessageHandler_get_conversation(
                          conversations, user1, user2, limit))
    /\ UNCHANGED <<conversations, pmSent, clock>>
    /\ PmFrame

\* pm_handler.mark_as_read(sender, receiver)
mark_as_read(sender, receiver) ==
    /\ LET marked == PrivateMessageHandler_mark_as_read(conversations, sender,
                                                        receiver)
       IN  /\ conversations' = marked.conversations
           /\ pmCall' = Call("mark_as_read", <<sender, receiver>>, marked.count)
    /\ UNCHANGED <<pmSent, clock>>
    /\ PmFrame

\* pm_handler.get_unread_count(username)
get_unread_count(username) ==
    /\ pmCall' = Call("get_unread_count", <<username>>,
                      PrivateMessageHandler_get_unread_count(conversations,
                                                             username))
    /\ UNCHANGED <<conversations, pmSent, clock>>
    /\ PmFrame

\* a PrivateMessageHandler constructed with an encryption service or, as its
\* constructor's default has it, with none
InitPrivateMessageHandler ==
    /\ InitStores
    /\ encryption \in BOOLEAN
    /\ mhCall = Call("__init__", None, None)

\* the limits get_conversation is called with
Limits == 0..(PmHistoryLimit + 1)

\* messages from alice to bob, of either content and with either encrypt
\* flag, and the reading of their conversation
NextPmEncrypt ==
    \/ \E content \in PmInputs, encrypt \in BOOLEAN :
           send_message("alice", "bob", content, encrypt)
    \/ \E limit \in Limits : get_conversation("alice", "bob", limit)

SpecPmEncrypt == InitPrivateMessageHandler /\ [][NextPmEncrypt]_vars

\* the names that exchange private messages
PmUsers == {"alice", "bob"}

\* plaintext messages between the names, themselves included, with the calls
\* that read and mark their conversations
NextPm ==
    \/ \E sender \in PmUsers, receiver \in PmUsers :
           send_message(sender, receiver, JsonStr(<<"a">>), FALSE)
    \/ \E user1 \in PmUsers, user2 \in PmUsers, limit \in Limits :
           get_conversation(user1, user2, limit)
    \/ \E sender \in PmUsers, receiver \in PmUsers : mark_as_read(sender, receiver)
    \/ \E username \in PmUsers : get_unread_count(username)

SpecPm == Init /\ [][NextPm]_vars

\* the frame of a call of an EncryptionService method
EncFrame == UNCHANGED <<regVars, roomVars, clock, lastEvent, histVars, pmVars,
                        joining, leaving, mhVars>>

\* encryption.encrypt(message) at time t
encrypt(message, t) ==
    /\ encCall' = Call("encrypt", message, EncryptionService_encrypt(message, t))
    /\ EncFrame

\* encryption.decrypt(encrypted_message)
decrypt(encrypted_message) ==
    /\ encCall' = Call("decrypt", encrypted_message,
                       EncryptionService_decrypt(encrypted_message))
    /\ EncFrame

\* the characters of the plaintexts and the plaintexts
PlainChars == {"a", "eacute", LoneSurrogate}
PlainTexts == UNION {[1..n -> PlainChars] : n \in 0..MaxPlainLen}

\* the times at which encrypt is called
Stamps == {1, 2}

\* a token whose bytes were changed after it was made: its signature no
\* longer verifies
Tamper(token) ==
    [key |-> token.key, text |-> token.text, cipher |-> token.cipher,
     str |-> token.str, stamp |-> token.stamp, intact |-> FALSE]

\* a token made under another key
Rekey(token) ==
    [key |-> "another key", text |-> token.text, cipher |-> token.cipher,
     str |-> token.str, stamp |-> token.stamp, intact |-> token.intact]

\* a token of the service's key over bytes that are no UTF-8 text
UndecodableToken == Token(MasterKey, 1, <<195>>)

\* values that no call of encrypt returned: strings that are no token, a
\* number, and a token whose plaintext is no UTF-8 text
ForeignInputs ==
    {JsonStr(<<"a">>), JsonStr(<<LoneSurrogate>>), JsonNum(<<"5">>),
     UndecodableToken}

\* what decrypt is handed: the token encrypt returned last, as it is, tampered
\* with or made under another key, or a value that encrypt did not return
DecryptInputs ==
    IF encCall.op = "encrypt" /\ ~encCall.ret.raised
    THEN {encCall.ret.value, Tamper(encCall.ret.value), Rekey(encCall.ret.value)}
             \cup ForeignInputs
    ELSE ForeignInputs

NextCrypto ==
    \/ \E text \in PlainTexts, t \in Stamps : encrypt(JsonStr(text), t)
    \/ \E t \in Stamps : encrypt(JsonNum(<<"5">>), t)
    \/ \E value \in DecryptInputs : decrypt(value)

SpecCrypto == Init /\ [][NextCrypto]_vars

\* handle_join_room up to the capacity test of RoomService.join_room (rooms.py
\* lines 157-163), run by the thread that serves connection c: a join that
\* passes the tests goes on to join_room_insert, one that fails them ends
join_room_check(c, room_id) ==
    /\ c \notin closed
    /\ joining[c] = <<>>
    /\ UNCHANGED <<regVars, roomVars, clock, histVars, pmVars, encCall, leaving,
                   mhVars>>
    /\ LET username == get_username(users, c)
           error == RoomService_join_room(rooms, user_rooms, room_id, c,
                                          username).error
       IN  /\ username # ""
           /\ IF error = ""
              THEN /\ joining' = [joining EXCEPT ![c] = <<room_id, username>>]
                   /\ UNCHANGED lastEvent
              ELSE /\ lastEvent' = Event("join_room", c, username, room_id, error,
                                         FALSE, {})
                   /\ UNCHANGED joining

\* the rest of RoomService.join_room (rooms.py lines 165-171) and of
\* handle_join_room for the join of connection c that passed the tests: the
\* name is added to the members of the room, whatever they are by now
join_room_insert(c) ==
    /\ joining[c] # <<>>
    /\ UNCHANGED <<regVars, clock, histVars, pmVars, encCall, leaving, mhVars>>
    /\ LET room_id == joining[c][1]
           username == joining[c][2]
       IN  /\ rooms' = [rooms EXCEPT ![room_id].members = @ \cup {username}]
           /\ user_rooms' = Put(user_rooms, c,
                                Get(user_rooms, c, {}) \cup {room_id})
           /\ joining' = [joining EXCEPT ![c] = <<>>]
           /\ lastEvent' = Event("join_room", c, username, room_id, "ok", FALSE,
                                 {ToSender("joined_room"),
                                  ToRoom("user_joined_room", room_id)})

\* the capacities of the rooms created while joins race
RaceMaxUsers == {1, 2}

\* join_room events of the connections handled by threads that interleave
\* between the capacity test and the insertion; every connection registers
\* once and no room is deleted, so a join in progress keeps its name and room
NextJoinRace ==
    \/ \E c \in Conns, username \in RawNames :
           c \notin DOMAIN users /\ handle_set_username(c, username)
    \/ \E c \in Conns, max_users \in RaceMaxUsers :
           joining[c] = <<>> /\ handle_create_room(c, "Team", max_users)
    \/ \E c \in Conns, room_id \in RoomIds : join_room_check(c, room_id)
    \/ \E c \in Conns : join_room_insert(c)
    \/ \E c \in Conns, room_id \in RoomIds :
           joining[c] = <<>> /\ handle_leave_room(c, room_id)

SpecJoinRace == Init /\ [][NextJoinRace]_vars

\* handle_disconnect up to its call of unregister_user (app.py line 63), for
\* the server that runs event handlers concurrently: the user record of
\* connection c is removed and its display name is held by the handler
disconnect_unregister(c) ==
    /\ c \notin closed
    /\ leaving[c] = ""
    /\ closed' = closed \cup {c}
    /\ UNCHANGED <<user_counter, roomVars, clock, assigned, appended, pmVars,
                   encCall, joining, mhVars>>
    /\ LET u == unregister_user(users, usernames, c)
       IN  IF ~u.found
           THEN /\ lastEvent' = Event("disconnect", c, "", "", "None", FALSE, {})
                /\ UNCHANGED <<users, usernames, leaving>>
           ELSE /\ users' = u.users
                /\ usernames' = u.usernames
                /\ leaving' = [leaving EXCEPT ![c] = u.user.display_name]
                /\ UNCHANGED lastEvent

\* the rest of handle_disconnect (app.py lines 64-77): leave_all_rooms with
\* the display name that unregister_user returned, then the emits
disconnect_leave_all(c) ==
    /\ leaving[c] # ""
    /\ UNCHANGED <<regVars, clock, histVars, pmVars, encCall, joining, mhVars>>
    /\ LET l == RoomHandler_handle_disconnect(rooms, user_rooms, c, leaving[c])
       IN  /\ rooms' = l.rooms
           /\ user_rooms' = l.user_rooms
           /\ leaving' = [leaving EXCEPT ![c] = ""]
           /\ lastEvent' =
                  Event("disconnect", c, leaving[c], "", "user", FALSE,
                        {Broadcast("message"), Broadcast("update_user_list")}
                        \cup {ToRoom("user_left_room", r) : r \in l.left_rooms})

\* the disconnect of a connection interleaved with the join_room events
NextDisconnectRace ==
    \/ \E c \in Conns, username \in RawNames :
           c \notin DOMAIN users /\ handle_set_username(c, username)
    \/ \E c \in Conns, max_users \in RaceMaxUsers :
           joining[c] = <<>> /\ handle_create_room(c, "Team", max_users)
    \/ \E c \in Conns, room_id \in RoomIds : join_room_check(c, room_id)
    \/ \E c \in Conns : join_room_insert(c)
    \/ \E c \in Conns : disconnect_unregister(c)
    \/ \E c \in Conns : disconnect_leave_all(c)

SpecDisconnectRace == Init /\ [][NextDisconnectRace]_vars

\* one registration more than the 'general' room admits members
Crowd == DefaultMaxUsers + 1

\* the registrations that fill the 'general' room, with the creation of a
\* room and the disconnect of the connection
NextCrowd ==
    \/ \E username \in RawNames : set_username(Sender, username, Crowd)
    \/ handle_create_room(Sender, "Team", DefaultMaxUsers)
    \/ handle_disconnect(Sender)

SpecCrowd == Init /\ [][NextCrowd]_vars

\* names of which two contain the separator of the conversation id
SeparatorNames == {"a", "a_b", "b_c", "c"}

\* plaintext messages between the names and the reading of the
\* conversations of 'c' with the others
NextPmNames ==
    \/ \E sender \in SeparatorNames, receiver \in SeparatorNames :
           send_message(sender, receiver, JsonStr(<<"a">>), FALSE)
    \/ \E user1 \in SeparatorNames \ {"c"} :
           get_conversation(user1, "c", PmHistoryLimit)

SpecPmNames == Init /\ [][NextPmNames]_vars

(***************************************************************************)
(* Properties                                                              *)
(***************************************************************************)
Registered == DOMAIN users

\* C1: no two currently registered connections have the same display name,
\* also when their registrations requested the identical raw name.
C1_UniqueDisplayNames ==
    \A c, d \in Registered :
        c # d => users[c].display_name # users[d].display_name

\* C1 witness: both connections are registered under the identical raw name,
\* one of them after a re-registration.
C1_Witness ==
    /\ Registered = Conns
    /\ \A c, d \in Registered : users[c].username = users[d].username
    /\ user_counter > 3
    /\ lastEvent.op = "set_username"

JoinByNonMember(c, r) ==
    /\ lastEvent'.op = "join_room"
    /\ lastEvent'.sid = c
    /\ lastEvent'.room = r
    /\ c \in Registered
    /\ r \in DOMAIN rooms
    /\ users[c].display_name \notin rooms[r].members

C3_Claim ==
    \A c \in closed : \A r \in DOMAIN rooms :
        rooms[r].members \cap assigned[c] = {}

\* C4 as stated: a set_username of an already registered connection keeps its
\* user record and changes neither registry map nor any room member set.
C4_Claim ==
    [][\A c \in Conns :
          (lastEvent'.op = "set_username" /\ lastEvent'.sid = c
           /\ c \in Registered)
          => /\ c \in DOMAIN users' /\ users'[c] = users[c]
             /\ UNCHANGED <<users, usernames, rooms>>]_vars

\* C5 as stated: connection c has display name d iff d maps to c.
C5_Claim ==
    /\ \A c \in Registered :
           /\ users[c].display_name \in DOMAIN usernames
           /\ usernames[users[c].display_name] = c
    /\ \A d \in DOMAIN usernames :
           /\ usernames[d] \in Registered
           /\ users[usernames[d]].display_name = d

\* C6 as stated: every recorded room message flagged encrypted carries
\* ciphertext (a failed encryption leaves plaintext and encrypted = false).
C6_Claim ==
    \A r \in DOMAIN rooms :
        \A i \in 1..Len(rooms[r].message_history) :
            rooms[r].message_history[i].encrypted
                => rooms[r].message_history[i].content.cipher

\* C7: a room's history is the sequence of the most recent HistoryLimit
\* messages appended to it, in append order; it never exceeds HistoryLimit.
C7_HistoryBound ==
    \A r \in DOMAIN rooms :
        LET h == rooms[r].message_history
            a == appended[r]
        IN  /\ Len(h) <= HistoryLimit
            /\ Len(h) = IF Len(a) > HistoryLimit THEN HistoryLimit ELSE Len(a)
            /\ \A i \in 1..Len(h) : h[i] = a[Len(a) - Len(h) + i]

\* C7 witness: more than HistoryLimit messages were appended to one room.
C7_Witness ==
    /\ lastEvent.op = "message"
    /\ lastEvent.ret = "ok"
    /\ \E r \in DOMAIN rooms : Len(appended[r]) > HistoryLimit

\* C8: the room 'general' always exists, and every delete_room of it fails
\* with the protected-room error and changes no state.
C8_GeneralProtected ==
    /\ []("general" \in DOMAIN rooms)
    /\ [][(lastEvent'.op = "delete_room" /\ lastEvent'.room = "general")
          => /\ lastEvent'.ret = "default room"
             /\ UNCHANGED <<users, usernames, user_counter, rooms, user_rooms>>]_vars

\* C8 witness: the creator 'System', an admin of 'general', has just asked to
\* delete it while users are members of it.
C8_Witness ==
    /\ lastEvent.op = "delete_room"
    /\ lastEvent.room = "general"
    /\ lastEvent.user = "System"
    /\ lastEvent.user \in rooms["general"].admins
    /\ rooms["general"].members # {}

\* C9: a disconnect of a connection that is not registered returns None,
\* raises nothing and leaves registry, rooms and membership index unchanged.
C9_DisconnectIdempotent ==
    [][\A c \in Conns :
          (lastEvent'.op = "disconnect" /\ lastEvent'.sid = c
           /\ c \notin Registered)
          => /\ lastEvent'.ret = "None"
             /\ ~lastEvent'.raised
             /\ UNCHANGED <<users, usernames, user_counter, rooms, user_rooms>>]_vars

\* C9 witness: a second disconnect of a connection that had been registered
\* and was removed by its first disconnect.
C9_Witness ==
    /\ lastEvent.op = "disconnect"
    /\ lastEvent.ret = "None"
    /\ assigned[lastEvent.sid] # {}
    /\ lastEvent.sid \in closed

\* C10 as stated: a join by a display name that is already a member of the
\* room succeeds and changes neither member sets nor the membership index.
C10_Claim ==
    [][\A c \in Conns, r \in RoomIds :
          (/\ lastEvent'.op = "join_room"
           /\ lastEvent'.sid = c
           /\ lastEvent'.room = r
           /\ c \in Registered
           /\ r \in DOMAIN rooms
           /\ users[c].display_name \in rooms[r].members)
          => /\ lastEvent'.ret = "ok"
             /\ UNCHANGED <<rooms, user_rooms>>]_vars

\* C11 as stated: a leave_room that reaches RoomService.leave_room returns
\* false, raising nothing and changing neither rooms nor membership index, when
\* the room does not exist or the display name is not a member of it; it
\* returns true only when the name was a member and has been removed.
C11_Claim ==
    [][\A c \in Conns, r \in RoomIds \ {"general"} :
          (lastEvent'.op = "leave_room" /\ lastEvent'.sid = c
           /\ lastEvent'.room = r /\ c \in Registered)
          => /\ (r \notin DOMAIN rooms
                 \/ users[c].display_name \notin rooms[r].members)
                => /\ lastEvent'.ret = "failed"
                   /\ ~lastEvent'.raised
                   /\ UNCHANGED <<rooms, user_rooms>>
             /\ lastEvent'.ret = "ok"
                => /\ r \in DOMAIN rooms
                   /\ users[c].display_name \in rooms[r].members
                   /\ users[c].display_name \notin rooms'[r].members]_vars

\* C13: a create_room on an id that is already taken fails with the
\* already-exists error and leaves the existing room (members, admins,
\* capacity, history) and every other room unchanged; a successful create_room
\* yields a room whose admin set contains the creator and whose member set
\* and history are empty.
C13_CreateRoom ==
    [][\A c \in Conns, r \in RoomIds :
          (lastEvent'.op = "create_room" /\ lastEvent'.sid = c
           /\ lastEvent'.room = r /\ c \in Registered)
          => /\ r \in DOMAIN rooms
                => /\ lastEvent'.ret = "already exists"
                   /\ UNCHANGED <<rooms, user_rooms>>
             /\ lastEvent'.ret = "ok"
                => /\ r \notin DOMAIN rooms
                   /\ r \in DOMAIN rooms'
                   /\ users[c].display_name \in rooms'[r].admins
                   /\ rooms'[r].members = {}
                   /\ rooms'[r].message_history = <<>>
                   /\ \A q \in DOMAIN rooms : rooms'[q] = rooms[q]]_vars

\* C13 witness: a create_room by a user other than the creator has just failed
\* on the id of an existing room that has a member.
C13_Witness ==
    /\ lastEvent.op = "create_room"
    /\ lastEvent.ret = "already exists"
    /\ lastEvent.room \in DOMAIN rooms
    /\ lastEvent.room # "general"
    /\ rooms[lastEvent.room].members # {}
    /\ lastEvent.user # rooms[lastEvent.room].created_by

\* C18 as stated: every join_room or leave_room event of a registered
\* connection relays a result to the requester: a success result when the
\* operation succeeded, a failure result carrying an error when it failed.
C18_Claim ==
    [][\A c \in Conns :
          (lastEvent'.op \in {"join_room", "leave_room"} /\ lastEvent'.sid = c
           /\ c \in Registered)
          => IF lastEvent'.ret = "ok"
             THEN \/ ToSender("joined_room") \in lastEvent'.emits
                  \/ ToSender("left_room") \in lastEvent'.emits
             ELSE \E e \in lastEvent'.emits : e[2] = "sender"]_vars

\* the requester of the last call may delete room r: it is r's creator or in
\* r's admin set in the state the call was made in
MayDelete(r) ==
    \/ lastEvent'.user = rooms[r].created_by
    \/ lastEvent'.user \in rooms[r].admins

\* C12: a room other than 'general' disappears only in a delete_room step
\* whose requester is the room's creator or in its admin set at that moment;
\* a delete_room of an absent room fails with not-found, one by anyone else
\* fails with forbidden, and a failed delete_room leaves the rooms (members,
\* admins, histories) and the membership index unchanged.
C12_DeleteRoom ==
    [][/\ \A r \in DOMAIN rooms :
              r \notin DOMAIN rooms'
              => /\ r # "general"
                 /\ lastEvent'.op = "delete_room"
                 /\ lastEvent'.room = r
                 /\ lastEvent'.ret = "ok"
                 /\ MayDelete(r)
       /\ \A r \in RoomIds \ {"general"} :
              (lastEvent'.op = "delete_room" /\ lastEvent'.room = r)
              => /\ r \notin DOMAIN rooms => lastEvent'.ret = "does not exist"
                 /\ (r \in DOMAIN rooms /\ ~MayDelete(r))
                    => lastEvent'.ret = "only admins"
                 /\ (r \in DOMAIN rooms /\ MayDelete(r))
                    => /\ lastEvent'.ret = "ok"
                       /\ r \notin DOMAIN rooms'
                 /\ lastEvent'.ret # "ok" => UNCHANGED <<rooms, user_rooms>>]_vars

\* C12 witness: a delete_room has just been refused to a user who is neither
\* the creator nor an admin of a room that has an admin besides its creator.
C12_Witness ==
    /\ lastEvent.op = "delete_room"
    /\ lastEvent.ret = "only admins"
    /\ lastEvent.room \in DOMAIN rooms
    /\ lastEvent.user \in AllAssigned
    /\ lastEvent.user \notin rooms[lastEvent.room].admins
    /\ rooms[lastEvent.room].admins # {rooms[lastEvent.room].created_by}

\* C14: the admin set of a room changes only in a make_admin step whose
\* requester is in that admin set, and then only grows; a room starts with its
\* creator as the only admin; a make_admin by a requester who is not an admin
\* fails with forbidden and one on an absent room fails with not-found, both
\* leaving every room unchanged.
C14_MakeAdmin ==
    [][/\ \A r \in DOMAIN rooms \cap DOMAIN rooms' :
              rooms'[r].admins # rooms[r].admins
              => /\ lastEvent'.op = "make_admin"
                 /\ lastEvent'.room = r
                 /\ lastEvent'.ret = "True"
                 /\ lastEvent'.user \in rooms[r].admins
                 /\ rooms[r].admins \subseteq rooms'[r].admins
       /\ \A r \in DOMAIN rooms' \ DOMAIN rooms :
              rooms'[r].admins = {rooms'[r].created_by}
       /\ \A r \in RoomIds :
              (lastEvent'.op = "make_admin" /\ lastEvent'.room = r)
              => /\ r \notin DOMAIN rooms
                    => /\ lastEvent'.ret = "does not exist"
                       /\ lastEvent'.raised
                       /\ UNCHANGED rooms
                 /\ (r \in DOMAIN rooms /\ lastEvent'.user \notin rooms[r].admins)
                    => /\ lastEvent'.ret = "only admins can add"
                       /\ lastEvent'.raised
                       /\ UNCHANGED rooms]_vars

\* C14 witness: a make_admin has just been refused to a registered user who is
\* not an admin of a room in which an admin has made another user admin.
C14_Witness ==
    /\ lastEvent.op = "make_admin"
    /\ lastEvent.ret = "only admins can add"
    /\ lastEvent.room \in DOMAIN rooms
    /\ lastEvent.room # "general"
    /\ \E c \in Registered : users[c].display_name = lastEvent.user
    /\ lastEvent.user \notin rooms[lastEvent.room].admins
    /\ Cardinality(rooms[lastEvent.room].admins) > 1

\* the text validate_message was applied to, once it has returned
Validated(text) ==
    /\ mhCall.op = "validate_message"
    /\ mhCall.ret # "pending"
    /\ mhCall.arg = text

\* C15 as stated: validate_message accepts a text exactly when the trimmed
\* text is non-empty and no longer than the maximum length; it reports 'empty'
\* for a text that is empty after trimming and 'too long' for a text over the
\* maximum length.
C15_Original ==
    \A text \in Texts :
        Validated(text)
        => /\ mhCall.ret = ""
              <=> (Strip(text) # <<>> /\ Len(Strip(text)) <= MaxMessageLength)
           /\ Strip(text) = <<>> => mhCall.ret = "empty"

\* C15 amended: the length is measured before trimming. validate_message
\* reports 'too long' for every text longer than the maximum length, blank or
\* padded ones included; 'empty' for a text within the maximum length that is
\* empty after trimming; and accepts every other text.
C15_Validate ==
    \A text \in Texts :
        Validated(text)
        => mhCall.ret = IF Len(text) > MaxMessageLength THEN "too long"
                        ELSE IF \A i \in 1..Len(text) : text[i] \in Whitespace
                        THEN "empty"
                        ELSE ""

\* C15 witness: validate_message has rejected as too long a padded text whose
\* trimmed content is non-empty and within the maximum length.
C15_Witness ==
    /\ mhCall.op = "validate_message"
    /\ mhCall.ret = "too long"
    /\ Strip(mhCall.arg) # <<>>
    /\ Len(Strip(mhCall.arg)) <= MaxMessageLength

\* the admissions not yet dispatched when the first n have been, as msg_data
PendingAfter(n) ==
    [i \in 1..(Len(admitted) - n) |->
        MsgData(admitted[n + i].username, admitted[n + i].message,
                admitted[n + i].timestamp)]

\* what was dispatched from queue by policy p is the admissions in admission
\* order, and queue holds the admissions that follow them
InAdmissionOrder(p, queue) ==
    LET n == Len(dispatched[p])
    IN  /\ n <= Len(admitted)
        /\ \A i \in 1..n :
               dispatched[p][i] = <<admitted[i].username, admitted[i].message>>
        /\ queue = PendingAfter(n)

\* C19: under FCFS and under FIFO, whatever the interleaving of admissions
\* and dispatches, the messages dispatched so far are the first admissions in
\* admission order, and each dispatch returns and removes the head of the
\* queue (None on an empty queue).
C19_ArrivalOrder ==
    /\ [](InAdmissionOrder("FCFS", fcfs_queue)
          /\ InAdmissionOrder("FIFO", fifo_queue))
    /\ [][(mhCall'.op = "process_message" /\ time' = time)
          => LET queue == IF Processor(mhCall'.arg) = "FCFS"
                          THEN fcfs_queue ELSE fifo_queue
             IN  IF queue = <<>>
                 THEN mhCall'.ret = None /\ UNCHANGED queueVars
                 ELSE mhCall'.ret = <<Head(queue)[1], Head(queue)[2]>>]_vars

\* C19 witness: two different messages were dispatched under FIFO, the second
\* after a third admission, while FCFS has dispatched only the first.
C19_Witness ==
    /\ mhCall.op = "process_message"
    /\ Len(admitted) = 3
    /\ Len(dispatched["FIFO"]) = 2
    /\ dispatched["FIFO"][1] # dispatched["FIFO"][2]
    /\ Len(dispatched["FCFS"]) = 1
    /\ fifo_queue # <<>>

\* the positions of the entries of the item list d under key
PendingAt(d, key) == {i \in 1..Len(d) : d[i][1] = key}

\* C20: the LRU queue holds at most one pending entry per (sender, content)
\* pair; an admission of a pair leaves exactly one entry for it, carrying the
\* timestamp of this admission, which is not earlier than the one it replaces,
\* and leaves the other entries as they were; each LRU dispatch returns a
\* pending pair whose timestamp no other pending entry precedes and removes
\* its entry only (None on an empty queue).
C20_Lru ==
    /\ [](\A i, j \in 1..Len(lru_queue) :
             lru_queue[i][1] = lru_queue[j][1] => i = j)
    /\ [][(mhCall'.op = "add_to_queue" /\ Len(admitted') = Len(admitted) + 1)
          => LET key == <<mhCall'.arg[1], mhCall'.arg[2]>>
             IN  /\ Cardinality(PendingAt(lru_queue', key)) = 1
                 /\ \A i \in PendingAt(lru_queue', key) :
                        /\ lru_queue'[i][2] = admitted'[Len(admitted')].timestamp
                        /\ \A j \in PendingAt(lru_queue, key) :
                               lru_queue[j][2] <= lru_queue'[i][2]
                 /\ DelItem(lru_queue', key) = DelItem(lru_queue, key)]_vars
    /\ [][(mhCall'.op = "process_message" /\ time' = time)
          => IF lru_queue = <<>>
             THEN mhCall'.ret = None /\ UNCHANGED queueVars
             ELSE \E i \in 1..Len(lru_queue) :
                      /\ mhCall'.ret = lru_queue[i][1]
                      /\ \A j \in 1..Len(lru_queue) :
                             lru_queue[i][2] <= lru_queue[j][2]
                      /\ lru_queue' = DelItem(lru_queue, lru_queue[i][1])
                      /\ Len(lru_queue') = Len(lru_queue) - 1]_vars

\* C20 witness: a pair was admitted, a second pair later, the first pair once
\* more later still; the dispatch that followed has returned the second pair
\* and the first is pending once, with the timestamp of its last admission.
C20_Witness ==
    /\ mhCall.op = "process_message"
    /\ Len(admitted) = 3
    /\ admitted[1].username = admitted[3].username
    /\ admitted[1].message = admitted[3].message
    /\ admitted[1].timestamp < admitted[2].timestamp
    /\ admitted[2].timestamp < admitted[3].timestamp
    /\ mhCall.ret = <<admitted[2].username, admitted[2].message>>
    /\ dispatched["LRU"] = <<mhCall.ret>>
    /\ lru_queue = <<<<<<admitted[3].username, admitted[3].message>>,
                      admitted[3].timestamp>>>>

\* C16: a message event of a registered connection that fails validation
\* emits the error to the sender and nothing else, and leaves the rooms with
\* their histories, and the log of appended messages, unchanged.
C16_InvalidMessage ==
    [][\A c \in Conns :
          (/\ lastEvent'.op = "message"
           /\ lastEvent'.sid = c
           /\ c \in Registered
           /\ lastEvent'.ret \in {"empty", "too long"})
          => /\ lastEvent'.emits = {ToSender("error")}
             /\ UNCHANGED <<rooms, appended, clock>>]_vars

\* C16 witness: an over-long message to a room whose history is not empty has
\* just been rejected.
C16_Witness ==
    /\ lastEvent.op = "message"
    /\ lastEvent.ret = "too long"
    /\ lastEvent.room \in DOMAIN rooms
    /\ rooms[lastEvent.room].message_history # <<>>

\* the events that require a registered sender
RegisteredOnly ==
    {"message", "create_room", "join_room", "leave_room", "private_message",
     "get_conversation"}

\* C17: an event that requires a registered sender and comes from a
\* connection that is not registered raises nothing, emits nothing and leaves
\* the registry, the rooms with their members and histories, the membership
\* index and the conversations unchanged.
C17_Ignored ==
    [][\A c \in Conns :
          (lastEvent'.op \in RegisteredOnly /\ lastEvent'.sid = c
           /\ c \notin Registered)
          => /\ lastEvent'.emits = {}
             /\ ~lastEvent'.raised
             /\ UNCHANGED <<users, usernames, user_counter, rooms, user_rooms,
                            conversations, appended>>]_vars

\* C17 witness: a private_message of the connection that never registered has
\* just been ignored, while a conversation, a room history and a second room
\* exist.
C17_Witness ==
    /\ lastEvent.op = "private_message"
    /\ lastEvent.sid \notin Registered
    /\ lastEvent.ret = "ignored"
    /\ Registered # {}
    /\ conversations # EmptyDict
    /\ rooms["general"].message_history # <<>>
    /\ "team" \in DOMAIN rooms

\* the entries of priority p in a priority queue, in queue order
Band(queue, p) == SelectSeq(queue, LAMBDA entry : entry[1] = p)

\* the admissions of priority p as priority queue entries, in admission order
AdmittedBand(p) ==
    LET band == SelectSeq(admitted, LAMBDA a : a.priority = p)
    IN  [i \in 1..Len(band) |->
            <<p, band[i].timestamp, band[i].username, band[i].message>>]

\* s is what is left of t when its first entries are taken away
IsSuffix(s, t) == \E k \in 0..Len(t) : s = SubSeq(t, k + 1, Len(t))

\* C21: the priority queue lists the pending admissions by falling priority
\* and, within one priority, in admission order also when timestamps are
\* equal (what is pending of a priority is what was admitted last of it);
\* each priority dispatch returns and removes the head of this queue, None on
\* an empty queue; admissions (p=1,a), (p=5,b), (p=1,c) are queued as b, a, c.
C21_Priority ==
    /\ [](/\ \A i, j \in 1..Len(priority_queue) :
                 i < j => priority_queue[i][1] >= priority_queue[j][1]
          /\ \A p \in Priorities :
                 IsSuffix(Band(priority_queue, p), AdmittedBand(p))
          /\ Len(priority_queue) = Len(admitted) - Len(dispatched["PRIORITY"])
          /\ (/\ Len(admitted) = 3
              /\ dispatched["PRIORITY"] = <<>>
              /\ <<admitted[1].priority, admitted[2].priority,
                   admitted[3].priority>> = <<1, 5, 1>>)
             => [i \in 1..3 |-> priority_queue[i][4]]
                    = <<admitted[2].message, admitted[1].message,
                        admitted[3].message>>)
    /\ [][(mhCall'.op = "process_message" /\ time' = time)
          => IF priority_queue = <<>>
             THEN mhCall'.ret = None /\ UNCHANGED queueVars
             ELSE /\ mhCall'.ret = <<priority_queue[1][3], priority_queue[1][4]>>
                  /\ priority_queue' = Tail(priority_queue)]_vars

\* C21 witness: (p=1,a), (p=5,b), (p=1,c) were admitted with one and the same
\* timestamp and then dispatched in the order b, a, c.
C21_Witness ==
    /\ Len(admitted) = 3
    /\ [i \in 1..3 |-> <<admitted[i].priority, admitted[i].message>>]
           = <<<<1, "a">>, <<5, "b">>, <<1, "c">>>>
    /\ admitted[1].timestamp = admitted[3].timestamp
    /\ dispatched["PRIORITY"] = <<<<"alice", "b">>, <<"alice", "a">>, <<"alice", "c">>>>

\* the number of dispatches that have returned a message
DispatchCount ==
    Len(dispatched["FCFS"]) + Len(dispatched["FIFO"]) + Len(dispatched["LRU"])
    + Len(dispatched["ROUND_ROBIN"]) + Len(dispatched["PRIORITY"])

\* C22 as stated, for messages that were all admitted while FCFS was the
\* active algorithm: whatever set_algorithm has changed since, each dispatch
\* by the active algorithm treats them by FCFS, returning the earliest
\* admission that no dispatch has returned yet.
C22_Claim ==
    [][(/\ mhCall'.op = "process_message"
        /\ time' = time
        /\ mhCall'.ret # None)
       => /\ DispatchCount < Len(admitted)
          /\ mhCall'.ret = <<admitted[DispatchCount + 1].username,
                             admitted[DispatchCount + 1].message>>]_vars

\* a message whose encrypted flag agrees with its content
FlagTellsCipher(message) == message.encrypted => message.content.cipher

\* C23: send_message never fails because of encryption, and a stored or
\* returned message has encrypted = true only if its content is ciphertext:
\* when encryption is requested and fails or cannot be applied, the message
\* keeps the plaintext content and has encrypted = false
C23_Claim ==
    /\ \A id \in DOMAIN conversations :
           \A i \in 1..Len(conversations[id]) :
               FlagTellsCipher(conversations[id][i])
    /\ pmCall.op = "send_message" =>
           /\ FlagTellsCipher(pmCall.ret)
           /\ (pmCall.arg[3] /\ ~pmCall.ret.content.cipher) => ~pmCall.ret.encrypted

\* the messages sent so far between two names, in the order sent
Between(user1, user2) ==
    SelectSeq(pmSent, LAMBDA m : {m.sender, m.receiver} = {user1, user2})

\* messages with their read flags as send_message set them
AsSent(messages) ==
    [i \in 1..Len(messages) |-> [messages[i] EXCEPT !.read = FALSE]]

\* C24: conversation_id(A, B) = conversation_id(B, A) for all names, so the
\* messages A sent to B and B sent to A are appended to one conversation, and
\* get_conversation(A, B) and get_conversation(B, A) return the same sequence
C24_Symmetric ==
    /\ \A A \in PmUsers, B \in PmUsers :
           /\ conversation_id(A, B) = conversation_id(B, A)
           /\ AsSent(Get(conversations, conversation_id(A, B), <<>>))
                  = LastN(Between(A, B), PmHistoryLimit)
           /\ \A limit \in Limits :
                  PrivateMessageHandler_get_conversation(conversations, A, B, limit)
                      = PrivateMessageHandler_get_conversation(conversations, B, A,
                                                               limit)
    /\ pmCall.op = "get_conversation" =>
           pmCall.ret = PrivateMessageHandler_get_conversation(
                            conversations, pmCall.arg[2], pmCall.arg[1],
                            pmCall.arg[3])

\* get_conversation('bob', 'alice') returned a message alice sent to bob
\* followed by one bob sent to alice
C24_Witness ==
    /\ pmCall.op = "get_conversation"
    /\ pmCall.arg[1] = "bob" /\ pmCall.arg[2] = "alice"
    /\ Len(pmCall.ret) = 2
    /\ pmCall.ret[1].sender = "alice" /\ pmCall.ret[1].receiver = "bob"
    /\ pmCall.ret[2].sender = "bob" /\ pmCall.ret[2].receiver = "alice"

Min(a, b) == IF a <= b THEN a ELSE b

\* the k messages of a conversation sent last, oldest first
MostRecent(messages, k) ==
    SubSeq(messages, Len(messages) - k + 1, Len(messages))

\* C25: get_conversation(A, B, limit) returns, for every limit >= 0, at most
\* limit messages: the min(limit, length) most recently sent messages of the
\* conversation, oldest first
C25_Claim ==
    pmCall.op = "get_conversation" =>
        LET messages == Get(conversations,
                            conversation_id(pmCall.arg[1], pmCall.arg[2]), <<>>)
            limit == pmCall.arg[3]
        IN  /\ Len(pmCall.ret) <= limit
            /\ pmCall.ret = MostRecent(messages, Min(limit, Len(messages)))

\* the positions (conversation id, index) whose read flag the step changes
Flipped ==
    {p \in UNION {{<<id, i>> : i \in 1..Len(conversations[id])} :
                      id \in DOMAIN conversations} :
        /\ p[1] \in DOMAIN conversations'
        /\ p[2] <= Len(conversations'[p[1]])
        /\ conversations'[p[1]][p[2]].read # conversations[p[1]][p[2]].read}

C27_Frame ==
    [][lastEvent'.op = "get_conversation"
           => conversations' = conversations]_conversations

\* a get_conversation event returned a message decrypted, and the stored
\* message it was copied from is still the ciphertext, flagged encrypted
C27_Witness ==
    /\ lastEvent.op = "get_conversation"
    /\ lastEvent.user # ""
    /\ Len(lastEvent.ret) = 1
    /\ ~lastEvent.ret[1].encrypted
    /\ ~lastEvent.ret[1].content.cipher
    /\ \E id \in DOMAIN conversations :
           LET stored == conversations[id][Len(conversations[id])]
           IN  /\ stored.encrypted
               /\ stored.content.cipher
               /\ stored.id = lastEvent.ret[1].id
               /\ stored.read = lastEvent.ret[1].read

\* a string handed to decrypt that is not a token the service's key made and
\* nobody changed: Fernet does not verify it
DoesNotVerify(value) ==
    /\ value.str
    /\ \A i \in 1..Len(value.text) : value.cipher \/ value.text[i] # LoneSurrogate
    /\ ~(value.cipher /\ value.intact /\ value.key = MasterKey)

Encodable(message) ==
    \A i \in 1..Len(message.text) : message.text[i] # LoneSurrogate

\* a ciphertext that was changed after encrypt returned it, or that another
\* key made
Corrupted(value) ==
    value.str /\ value.cipher /\ (~value.intact \/ value.key # MasterKey)

C30_Claim ==
    \A r \in DOMAIN rooms : Cardinality(rooms[r].members) <= rooms[r].max_users


\* C31: once a disconnect of a connection (unregister, then leave_all_rooms)
\* and a join_room of that connection have both completed, in whatever order
\* their steps were taken, no room's member set contains the connection's
\* display name and the membership index has no entry for the connection.
Disconnected(c) == c \in closed /\ leaving[c] = "" /\ joining[c] = <<>>

C31_Claim ==
    \A c \in Conns :
        Disconnected(c) =>
            /\ c \notin DOMAIN user_rooms
            /\ \A r \in DOMAIN rooms : rooms[r].members \cap assigned[c] = {}


\* C32: a display name is never reused: the display name that a registration
\* assigns was assigned to no connection before, whichever connection
\* registers and also after the first holder has unregistered, so the name
\* of a user who left, still in a room's admin set, is not given to another.
C32_NeverReused ==
    [][(lastEvent'.op = "set_username" /\ lastEvent'.ret = "ok")
           => lastEvent'.user \notin AllAssigned]_regVars

\* a registration has just been made while a room's admin set still holds
\* the display name of a user who unregistered
C32_Witness ==
    /\ lastEvent.op = "set_username"
    /\ \E r \in DOMAIN rooms :
           \E a \in rooms[r].admins \cap AllAssigned : a \notin DOMAIN usernames


\* C33: in every reachable state every display name in a room's member set
\* is the current display name of a connection that is registered now.
C33_Claim ==
    \A r \in DOMAIN rooms :
        \A m \in rooms[r].members :
            \E c \in DOMAIN users : users[c].display_name = m


\* C34: in every reachable state every registered user is a member of the
\* 'general' room.
C34_Claim ==
    \A c \in DOMAIN users : users[c].display_name \in rooms["general"].members


\* C35: in every reachable state, whenever the membership index of a
\* connection contains room id r, room r exists and its member set contains
\* the display name of that connection; so a deleted room is in no index entry.
C35_Claim ==
    \A c \in DOMAIN user_rooms :
        \A r \in user_rooms[c] :
            /\ r \in DOMAIN rooms
            /\ c \in DOMAIN users
            /\ users[c].display_name \in rooms[r].members


\* C36: a message event appends to the history of a room and broadcasts to
\* it only when the display name of the sender is in the member set of that
\* room at the time of the event; a message to a room id that does not exist
\* changes no history and creates no room.
C36_Claim ==
    [][(lastEvent'.op = "message" /\ lastEvent'.ret = "ok")
           => IF lastEvent'.room \in DOMAIN rooms
              THEN lastEvent'.user \in rooms[lastEvent'.room].members
              ELSE rooms' = rooms /\ appended' = appended]_<<rooms, clock>>


\* the number of times process_message has returned the pair item
Returns(item) ==
    LET n(a) == Cardinality({i \in 1..Len(dispatched[a]) : dispatched[a][i] = item})
    IN  n("FCFS") + n("FIFO") + n("LRU") + n("ROUND_ROBIN") + n("PRIORITY")

\* the number of admissions of the pair item
Admissions(item) ==
    Cardinality({i \in 1..Len(admitted) :
                     <<admitted[i].username, admitted[i].message>> = item})

AdmittedItems ==
    {<<admitted[i].username, admitted[i].message>> : i \in 1..Len(admitted)}

\* C37: over any sequence of add_to_queue, set_algorithm and process_message
\* calls no admission is returned by process_message twice (a pair is
\* returned at most as often as it was admitted), and once every admission
\* has been dispatched every pending queue is empty.
C37_Claim ==
    /\ \A item \in AdmittedItems : Returns(item) <= Admissions(item)
    /\ (\A item \in AdmittedItems : Returns(item) >= Admissions(item))
           => /\ fcfs_queue = <<>>
              /\ fifo_queue = <<>>
              /\ lru_queue = <<>>
              /\ priority_queue = <<>>
              /\ round_robin_queue = <<>>


\* C38: every message stored in the conversation of {A, B} has its sender
\* and its receiver in {A, B}, also for names that contain the separator
\* '_' (no two distinct unordered pairs of names share a conversation id).
C38_Claim ==
    \A a \in SeparatorNames, b \in SeparatorNames :
        LET messages == Get(conversations, conversation_id(a, b), <<>>)
        IN  \A i \in 1..Len(messages) :
                /\ messages[i].sender \in {a, b}
                /\ messages[i].receiver \in {a, b}

====
